---- MODULE Spec2Model ----
(***************************************************************************)
(* Model of the Descuentos repository: the discount calculator             *)
(* (descuentos.py: calcular_descuento), its command-line driver            *)
(* (descuentos.py: main) and the test harness with its report writer       *)
(* (test_descuentos.py).                                                   *)
(*                                                                         *)
(* Python floats are modelled by a scaled-down IEEE 754 binary format:     *)
(* MantBits bits of precision, a smallest unit of 2^-FracBits, round to    *)
(* nearest with ties to even, overflow to infinity, and NaN.  A finite     *)
(* value is kept as an integer number of units.  Zero is unsigned: -0.0    *)
(* and 0.0 compare equal in Python and no comparison of the code tells     *)
(* them apart.                                                             *)
(***************************************************************************)
EXTENDS Integers, Sequences, FiniteSets, TLC

VARIABLES importe, descuento, resultado,
          argv, salida,
          clock, files, run

calcVars == <<importe, descuento, resultado>>
mainVars == <<argv, salida>>
harnessVars == <<clock, files, run>>
vars == <<importe, descuento, resultado, argv, salida, clock, files, run>>

----------------------------------------------------------------------------
(* Bounds of the floating-point format. *)
MantBits == 6
FracBits == 6
MaxExp == 7

RECURSIVE Pow2(_)
Pow2(n) == IF n = 0 THEN 1 ELSE 2 * Pow2(n - 1)

Unit == Pow2(FracBits)
MantLimit == Pow2(MantBits)
MaxFinite == (MantLimit - 1) * Pow2(MaxExp)

Abs(x) == IF x < 0 THEN -x ELSE x

(* float values: finite (v units of 2^-FracBits), +-inf (v = +-1), nan *)
Fin(k) == [cls |-> "fin", v |-> k]
Inf(s) == [cls |-> "inf", v |-> s]
NaN == [cls |-> "nan", v |-> 0]

IsNaN(x) == x.cls = "nan"
IsFinite(x) == x.cls = "fin"

(* smallest e >= 0 with n/d < 2^(MantBits+e): the exponent of n/d *)
RECURSIVE ExpOf(_, _, _)
ExpOf(n, d, e) == IF n < d * Pow2(MantBits + e) THEN e ELSE ExpOf(n, d, e + 1)

(* n/d units (n >= 0, d > 0) rounded to MantBits significant bits, ties to
   even; the result is a number of units *)
RoundMag(n, d) ==
    LET e == ExpOf(n, d, 0)
        q == d * Pow2(e)
        m == n \div q
        r == n - m * q
        up == IF 2 * r > q THEN 1 ELSE IF 2 * r = q THEN m % 2 ELSE 0
    IN  (m + up) * Pow2(e)

(* the float nearest to the real number n/d units; overflow gives +-inf *)
RoundRat(n, d) ==
    LET mag == RoundMag(Abs(n), d)
        s == IF n < 0 THEN -1 ELSE 1
    IN  IF mag > MaxFinite THEN Inf(s) ELSE Fin(s * mag)

(* the finite floats, as numbers of units *)
Representable(k) == RoundMag(k, 1) = k
FiniteMags == {k \in 0..MaxFinite : Representable(k)}
Floats == {Fin(k) : k \in FiniteMags} \cup {Fin(-k) : k \in FiniteMags}
            \cup {Inf(1), Inf(-1), NaN}

Sign(x) == IF x.v < 0 THEN -1 ELSE IF x.v > 0 THEN 1 ELSE 0

(* Python's float comparisons: every comparison with nan is False *)
FLt(a, b) ==
    IF IsNaN(a) \/ IsNaN(b) THEN FALSE
    ELSE IF a.cls = "inf" THEN a.v < 0 /\ b # a
    ELSE IF b.cls = "inf" THEN b.v > 0
    ELSE a.v < b.v
FGt(a, b) == FLt(b, a)
FEq(a, b) == ~IsNaN(a) /\ ~IsNaN(b) /\ a = b
FLe(a, b) == FLt(a, b) \/ FEq(a, b)

(* x*y/d units for d a power of two, rounded; common factors of two are
   cancelled first so that the intermediate product stays small *)
RECURSIVE MulRat(_, _, _)
MulRat(x, y, d) ==
    IF d > 1 /\ x % 2 = 0 THEN MulRat(x \div 2, y, d \div 2)
    ELSE IF d > 1 /\ y % 2 = 0 THEN MulRat(x, y \div 2, d \div 2)
    ELSE RoundRat(x * y, d)

(* a * b *)
FMul(a, b) ==
    IF IsNaN(a) \/ IsNaN(b) THEN NaN
    ELSE IF a.cls = "inf" \/ b.cls = "inf"
         THEN IF Sign(a) * Sign(b) = 0 THEN NaN ELSE Inf(Sign(a) * Sign(b))
    ELSE MulRat(a.v, b.v, Unit)

(* a / b for a finite b # 0 (the code divides by the literal 100 only) *)
FDiv(a, b) ==
    IF IsNaN(a) THEN NaN
    ELSE IF a.cls = "inf" THEN Inf(Sign(a) * Sign(b))
    ELSE RoundRat(Sign(b) * a.v * Unit, Abs(b.v))

(* a - b *)
FSub(a, b) ==
    IF IsNaN(a) \/ IsNaN(b) THEN NaN
    ELSE IF a.cls = "inf" /\ b.cls = "inf"
         THEN IF a.v = b.v THEN NaN ELSE a
    ELSE IF a.cls = "inf" THEN a
    ELSE IF b.cls = "inf" THEN Inf(-b.v)
    ELSE RoundRat(a.v - b.v, 1)

(* the float of an int literal; 0 and 100 are exact in the format *)
FromInt(i) == RoundRat(i * Unit, 1)
Zero == FromInt(0)
Cien == FromInt(100)

----------------------------------------------------------------------------
(* descuentos.py: calcular_descuento *)

(* A text is a sequence of words followed by an optional datum, a sequence
   of characters (the offending string of a conversion error, the digits of
   a printed number). *)
Texto(palabras, dato) == [texto |-> palabras, dato |-> dato]
SinTexto == Texto(<<>>, <<>>)

MsgImporteNegativo ==
    Texto(<<"El", "importe", "no", "puede", "ser", "negativo">>, <<>>)
MsgDescuentoNegativo ==
    Texto(<<"El", "descuento", "no", "puede", "ser", "negativo">>, <<>>)
MsgDescuentoMayor ==
    Texto(<<"El", "descuento", "no", "puede", "ser", "mayor", "al", "100%">>, <<>>)

Raise(exc, msg) == [kind |-> "raise", exc |-> exc, msg |-> msg, value |-> NaN]
Return(x) == [kind |-> "return", exc |-> "", msg |-> SinTexto, value |-> x]
NotCalled == [kind |-> "none", exc |-> "", msg |-> SinTexto, value |-> NaN]

ImporteInvalido(imp) == FLt(imp, Zero)
DescuentoNegativo(desc) == FLt(desc, Zero)
(* slips of the code that the checked properties must notice *)
DescuentoMayorCien_omitido(desc) == FALSE

DescuentoMayorCien(desc) == FGt(desc, Cien)

importe_descuento_sin_dividir(imp, desc) == FMul(imp, desc)

importe_descuento(imp, desc) == FMul(imp, FDiv(desc, Cien))

importe_final_solo_descuento(imp, desc) == importe_descuento(imp, desc)

importe_final(imp, desc) == FSub(imp, importe_descuento(imp, desc))

calcular_descuento_descuento_primero(imp, desc) ==
    IF DescuentoNegativo(desc) THEN Raise("ValueError", MsgDescuentoNegativo)
    ELSE IF DescuentoMayorCien(desc) THEN Raise("ValueError", MsgDescuentoMayor)
    ELSE IF ImporteInvalido(imp) THEN Raise("ValueError", MsgImporteNegativo)
    ELSE Return(importe_final(imp, desc))

calcular_descuento(imp, desc) ==
    IF ImporteInvalido(imp) THEN Raise("ValueError", MsgImporteNegativo)
    ELSE IF DescuentoNegativo(desc) THEN Raise("ValueError", MsgDescuentoNegativo)
    ELSE IF DescuentoMayorCien(desc) THEN Raise("ValueError", MsgDescuentoMayor)
    ELSE Return(importe_final(imp, desc))


----------------------------------------------------------------------------
(* descuentos.py: main.  argv holds the positional arguments sys.argv[1:],
   each a sequence of characters. *)

Digits == <<"0", "1", "2", "3", "4", "5", "6", "7", "8", "9">>
DigitSet == {Digits[i] : i \in 1..Len(Digits)}
DigitVal(c) == (CHOOSE i \in 1..Len(Digits) : Digits[i] = c) - 1

RECURSIVE Pow10(_)
Pow10(n) == IF n = 0 THEN 1 ELSE 10 * Pow10(n - 1)

(* str.strip() of the blanks around a number *)
RECURSIVE StripLeft(_)
StripLeft(s) == IF s # <<>> /\ Head(s) = " " THEN StripLeft(Tail(s)) ELSE s
RECURSIVE StripRight(_)
StripRight(s) ==
    IF s # <<>> /\ s[Len(s)] = " " THEN StripRight(SubSeq(s, 1, Len(s) - 1)) ELSE s
Strip(s) == StripRight(StripLeft(s))

(* the integer written by a sequence of digits and points, points skipped *)
RECURSIVE DigitsValue(_)
DigitsValue(s) ==
    IF s = <<>> THEN 0
    ELSE IF s[Len(s)] = "." THEN DigitsValue(SubSeq(s, 1, Len(s) - 1))
    ELSE 10 * DigitsValue(SubSeq(s, 1, Len(s) - 1)) + DigitVal(s[Len(s)])

PointAt(s) == {i \in 1..Len(s) : s[i] = "."}
IsDecimal(s) ==
    /\ \A i \in 1..Len(s) : s[i] \in DigitSet \cup {"."}
    /\ Cardinality(PointAt(s)) <= 1
    /\ \E i \in 1..Len(s) : s[i] \in DigitSet
FracLen(s) == IF PointAt(s) = {} THEN 0 ELSE Len(s) - (CHOOSE i \in PointAt(s) : TRUE)

(* float(s) for a str s: blanks stripped, an optional sign, then inf,
   infinity, nan or a decimal number with an optional point; the value is
   rounded to the nearest float.  The strings of ArgStrings use neither
   exponents, underscores nor capitals, which float() would also accept. *)
ParseFloat(s) ==
    LET t == Strip(s)
        signed == t # <<>> /\ Head(t) \in {"+", "-"}
        sg == IF signed /\ Head(t) = "-" THEN -1 ELSE 1
        body == IF signed THEN Tail(t) ELSE t
    IN  IF body \in {<<"i", "n", "f">>, <<"i", "n", "f", "i", "n", "i", "t", "y">>}
            THEN [ok |-> TRUE, value |-> Inf(sg)]
        ELSE IF body = <<"n", "a", "n">> THEN [ok |-> TRUE, value |-> NaN]
        ELSE IF IsDecimal(body)
            THEN [ok |-> TRUE,
                  value |-> RoundRat(sg * DigitsValue(body) * Unit, Pow10(FracLen(body)))]
        ELSE [ok |-> FALSE, value |-> NaN]

(* the ValueError of float(): "could not convert string to float: '<s>'" *)
ErrorConversion(s) ==
    Texto(<<"could", "not", "convert", "string", "to", "float:">>, s)

(* str(float): sign, integer digits, point, fraction digits (the exact
   expansion of the value; at least one fraction digit, as in 90.0) *)
RECURSIVE IntDigits(_)
IntDigits(n) ==
    IF n < 10 THEN <<Digits[n + 1]>>
    ELSE IntDigits(n \div 10) \o <<Digits[(n % 10) + 1]>>
RECURSIVE FracDigits(_)
FracDigits(f) ==
    IF f = 0 THEN <<>>
    ELSE <<Digits[((f * 10) \div Unit) + 1]>> \o FracDigits((f * 10) % Unit)
Repr(x) ==
    IF IsNaN(x) THEN <<"n", "a", "n">>
    ELSE IF x.cls = "inf"
        THEN (IF x.v < 0 THEN <<"-">> ELSE <<>>) \o <<"i", "n", "f">>
    ELSE LET a == Abs(x.v)
             fr == FracDigits(a % Unit)
         IN  (IF x.v < 0 THEN <<"-">> ELSE <<>>) \o IntDigits(a \div Unit)
                \o <<".">> \o (IF fr = <<>> THEN <<"0">> ELSE fr)

(* pat in text, word by word *)
Contiene(text, pat) ==
    \E i \in 0..(Len(text) - Len(pat)) : SubSeq(text, i + 1, i + Len(pat)) = pat

LineaUso == Texto(<<"Uso:", "python", "descuentos.py", "<importe>", "<descuento>">>, <<>>)
LineaEjemplo == Texto(<<"Ejemplo:", "python", "descuentos.py", "100", "15">>, <<>>)
(* the accents of "numeros validos" are left out of the model's strings *)
LineaNoNumeros ==
    Texto(<<"Error:", "Los", "argumentos", "deben", "ser", "numeros", "validos">>, <<>>)
LineaError(msg) == Texto(<<"Error:">> \o msg.texto, msg.dato)
LineaResultado(x) == Texto(<<>>, Repr(x))

(* the outcome of a run of main: what was printed, the exit code, and how
   many float() conversions and calcular_descuento calls were made *)
Salida(out, err, code, conv, calls) ==
    [estado |-> "fin", stdout |-> out, stderr |-> err, exit |-> code,
     convertidos |-> conv, llamadas |-> calls]
SinEjecutar ==
    [estado |-> "inicio", stdout |-> <<>>, stderr |-> <<>>, exit |-> 0,
     convertidos |-> 0, llamadas |-> 0]

(* a slip: only too few arguments are refused *)
ArgumentosIncorrectos_insuficientes(args) == Len(args) < 2

ArgumentosIncorrectos(args) == Len(args) # 2

(* a slip: the text of int()'s conversion error is looked for *)
EsErrorConversion_literal(msg) == Contiene(msg.texto, <<"invalid", "literal">>)

EsErrorConversion(msg) == Contiene(msg.texto, <<"could", "not", "convert">>)

(* the except ValueError handler *)
ManejarValueError(msg, conv, calls) ==
    IF EsErrorConversion(msg)
    THEN Salida(<<>>, <<LineaNoNumeros>>, 1, conv, calls)
    ELSE Salida(<<>>, <<LineaError(msg)>>, 1, conv, calls)

main(args) ==
    IF ArgumentosIncorrectos(args)
    THEN Salida(<<>>, <<LineaUso, LineaEjemplo>>, 1, 0, 0)
    ELSE LET p1 == ParseFloat(args[1])
             p2 == ParseFloat(args[2])
             r == calcular_descuento(p1.value, p2.value)
         IN  IF ~p1.ok THEN ManejarValueError(ErrorConversion(args[1]), 1, 0)
             ELSE IF ~p2.ok THEN ManejarValueError(ErrorConversion(args[2]), 2, 0)
             ELSE IF r.kind = "raise" THEN ManejarValueError(r.msg, 2, 1)
             ELSE Salida(<<LineaResultado(r.value)>>, <<>>, 0, 2, 1)

(* the argument strings tried *)
MaxArgs == 3
ArgStrings ==
    { <<"1", "0", "0">>, <<"1", "0">>, <<"0">>, <<"1", "5", "0">>,
      <<"-", "5">>, <<"1", "2", ".", "5">>, <<" ", "5", "0", " ">>,
      <<"a", "b", "c">>, <<>>, <<"-">>, <<".">>, <<"1", ".", "2", ".", "3">>,
      <<"n", "a", "n">>, <<"i", "n", "f">>, <<"-", "i", "n", "f">> }
RECURSIVE Tuples(_)
Tuples(n) ==
    IF n = 0 THEN {<<>>}
    ELSE {Append(t, a) : t \in Tuples(n - 1), a \in ArgStrings}
ArgLists == UNION {Tuples(n) : n \in 0..MaxArgs}

----------------------------------------------------------------------------
(* test_descuentos.py: the cases.  A case calls the imported functions or,
   when the import failed, the stubs that return None. *)

None == [cls |-> "none", v |-> 0]
Lit(chars) == ParseFloat(chars).value

StubCalcular == [kind |-> "return", exc |-> "", msg |-> SinTexto, value |-> None]
StubMain == Salida(<<>>, <<>>, 0, 0, 0)

Llamar_calcular(importado, a, b) ==
    IF importado THEN calcular_descuento(a, b) ELSE StubCalcular
Llamar_main(importado, args) == IF importado THEN main(args) ELSE StubMain

ReprObj(x) == IF x = None THEN <<"N", "o", "n", "e">> ELSE Repr(x)

Registro(name, status, err) ==
    [test_name |-> name, status |-> status, error_msg |-> err]

(* TestResult.add_result, as called from the try and the except branch of a
   case: the records the call appends *)
add_result(name, status, err) == <<Registro(name, status, err)>>

(* a slip: the except branch re-raises without recording *)
Fallo_sin_registro(name, err) == <<>>

Exito(name) == add_result(name, "PASS", SinTexto)
Fallo(name, err) == add_result(name, "FAIL", err)

(* round(abs(first - second), 2) == 0 of assertAlmostEqual(places=2) *)
CasiIgual(x, y) ==
    \/ FEq(x, y)
    \/ /\ IsFinite(x) /\ IsFinite(y)
       /\ 200 * Abs(FSub(x, y).v) < Unit

(* resultado = calcular_descuento(a, b); self.assertEqual(resultado, esperado) *)
CasoIgual(name, importado, a, b, esperado) ==
    LET r == Llamar_calcular(importado, Lit(a), Lit(b))
    IN  IF r.kind = "raise" THEN Fallo(name, r.msg)
        ELSE IF FEq(r.value, Lit(esperado)) THEN Exito(name)
        ELSE Fallo(name, Texto(<<"!=">>, ReprObj(r.value) \o <<" ">> \o esperado))

(* self.assertAlmostEqual(resultado, esperado, places=2); abs(None - x) is a
   TypeError *)
CasoCasiIgual(name, importado, a, b, esperado) ==
    LET r == Llamar_calcular(importado, Lit(a), Lit(b))
    IN  IF r.kind = "raise" THEN Fallo(name, r.msg)
        ELSE IF r.value = None
            THEN Fallo(name, Texto(<<"unsupported", "operand", "type(s)">>, <<>>))
        ELSE IF CasiIgual(r.value, Lit(esperado)) THEN Exito(name)
        ELSE Fallo(name, Texto(<<"!=", "within", "2", "places">>,
                                 ReprObj(r.value) \o <<" ">> \o esperado))

(* with self.assertRaises(ValueError): calcular_descuento(a, b) *)
CasoValueError(name, importado, a, b) ==
    LET r == Llamar_calcular(importado, Lit(a), Lit(b))
    IN  IF r.kind = "raise" THEN Exito(name)
        ELSE Fallo(name, Texto(<<"ValueError", "not", "raised">>, <<>>))

(* main(); self.assertIn("90.0", output).  A SystemExit raised by main is no
   Exception: the except branch does not run and nothing is recorded. *)
EnSalida(chars, out) == \E i \in 1..Len(out) : Contiene(out[i].dato, chars)
CasoMainValido(name, importado, args, esperado) ==
    LET s == Llamar_main(importado, args)
    IN  IF s.exit = 1 THEN <<>>
        ELSE IF EnSalida(esperado, s.stdout) THEN Exito(name)
        ELSE Fallo(name, Texto(<<"not", "found", "in">>, esperado))

(* with self.assertRaises(SystemExit): main() *)
CasoMainSale(name, importado, args) ==
    LET s == Llamar_main(importado, args)
    IN  IF s.exit = 1 THEN Exito(name)
        ELSE Fallo(name, Texto(<<"SystemExit", "not", "raised">>, <<>>))

Txt100 == <<"1", "0", "0", ".", "0">>
Txt10 == <<"1", "0", ".", "0">>
Txt0 == <<"0", ".", "0">>
Txt90 == <<"9", "0", ".", "0">>

(* the records one case appends *)
Caso(name, imp) ==
    CASE name = "test_descuento_basico" -> CasoIgual(name, imp, Txt100, Txt10, Txt90)
      [] name = "test_descuento_cero" -> CasoIgual(name, imp, Txt100, Txt0, Txt100)
      [] name = "test_descuento_completo" -> CasoIgual(name, imp, Txt100, Txt100, Txt0)
      [] name = "test_importe_decimal" ->
            CasoCasiIgual(name, imp, <<"9", "9", ".", "9", "9">>,
                          <<"1", "5", ".", "0">>, <<"8", "4", ".", "9", "9">>)
      [] name = "test_descuento_decimal" ->
            CasoIgual(name, imp, Txt100, <<"1", "2", ".", "5">>, <<"8", "7", ".", "5">>)
      [] name = "test_valores_negativos_importe" ->
            CasoValueError(name, imp, <<"-", "1", "0", "0", ".", "0">>, Txt10)
      [] name = "test_valores_negativos_descuento" ->
            CasoValueError(name, imp, Txt100, <<"-", "1", "0", ".", "0">>)
      [] name = "test_descuento_mayor_cien" ->
            CasoValueError(name, imp, Txt100, <<"1", "5", "0", ".", "0">>)
      [] name = "test_main_argumentos_validos" ->
            CasoMainValido(name, imp, << <<"1", "0", "0">>, <<"1", "0">> >>, Txt90)
      [] name = "test_main_argumentos_insuficientes" ->
            CasoMainSale(name, imp, << <<"1", "0", "0">> >>)
      [] name = "test_main_argumentos_invalidos" ->
            CasoMainSale(name, imp, << <<"a", "b", "c">>, <<"1", "0">> >>)

(* the test methods of TestDescuentos in the order unittest runs them
   (sorted by name) *)
TodosLosCasos ==
    << "test_descuento_basico", "test_descuento_cero", "test_descuento_completo",
       "test_descuento_decimal", "test_descuento_mayor_cien", "test_importe_decimal",
       "test_main_argumentos_insuficientes", "test_main_argumentos_invalidos",
       "test_main_argumentos_validos", "test_valores_negativos_descuento",
       "test_valores_negativos_importe" >>

(* what unittest.main may be told to run on the command line: everything,
   one named case, or a selection that matches nothing *)
Baterias == {TodosLosCasos, <<"test_main_argumentos_validos">>, <<>>}

----------------------------------------------------------------------------
(* test_descuentos.py: TestResult.generate_report *)

Timestamp(t) == IntDigits(t)
NombreInforme(t) == <<"informe_pruebas_">> \o Timestamp(t) \o <<".txt">>
SinNombre == <<>>

Aprobadas(results) ==
    Cardinality({i \in 1..Len(results) : results[i].status = "PASS"})

(* (passed/total)*100 with one decimal, in tenths, rounded half to even *)
TasaDecimas(passed, total) ==
    LET n == passed * 1000
        q == n \div total
        r == n % total
    IN  IF 2 * r > total THEN q + 1
        ELSE IF 2 * r = total THEN q + (q % 2)
        ELSE q

Regla60 == Texto(<<"============">>, <<>>)
Regla30 == Texto(<<"------">>, <<>>)
LineaVacia == Texto(<<>>, <<>>)

Cabecera(fecha, inicio, fin) ==
    << Regla60,
       Texto(<<"INFORME", "DE", "PRUEBAS", "UNITARIAS", "-", "PROGRAMA", "DESCUENTOS">>, <<>>),
       Regla60,
       Texto(<<"Fecha", "de", "creacion:">>, Timestamp(fecha)),
       Texto(<<"Duracion:", "segundos">>, IntDigits(fin - inicio) \o <<".", "0", "0", "0">>),
       LineaVacia >>

Recuento(total, passed) ==
    << Texto(<<"RESUMEN", "DE", "RESULTADOS:">>, <<>>),
       Regla30,
       Texto(<<"Total", "de", "pruebas:">>, IntDigits(total)),
       Texto(<<"Pruebas", "exitosas:">>, IntDigits(passed)),
       Texto(<<"Pruebas", "fallidas:">>, IntDigits(total - passed)) >>

Porcentaje(total, passed) ==
    << Texto(<<"Porcentaje", "de", "exito:", "%">>,
             IntDigits(TasaDecimas(passed, total) \div 10) \o <<".">>
                \o IntDigits(TasaDecimas(passed, total) % 10)),
       LineaVacia >>

(* one test: the numbered line (mark v for PASS, x for FAIL), the error
   line when error_msg is truthy, a blank line *)
RECURSIVE Detalle(_, _)
Detalle(results, i) ==
    IF i > Len(results) THEN <<>>
    ELSE LET res == results[i]
             marca == IF res.status = "PASS" THEN "v" ELSE "x"
         IN  << Texto(<<marca, res.test_name, "-", res.status>>, IntDigits(i)) >>
             \o (IF res.error_msg # SinTexto
                 THEN <<Texto(<<"Error:">> \o res.error_msg.texto, res.error_msg.dato)>>
                 ELSE <<>>)
             \o <<LineaVacia>> \o Detalle(results, i + 1)

Conclusion(failed) ==
    << Regla60,
       IF failed = 0
       THEN Texto(<<"RESULTADO", "FINAL:", "TODAS", "LAS", "PRUEBAS", "PASARON",
                    "CORRECTAMENTE">>, <<>>)
       ELSE Texto(<<"RESULTADO", "FINAL:", "PRUEBA(S)", "FALLARON">>, IntDigits(failed)),
       Regla60 >>

(* the effect of generate_report: what the file holds when it is closed, and
   the exception that leaves the call, if any.  abre says whether open()
   succeeds; dividing by total_tests = 0 raises after the counts are
   written. *)
generate_report(results, inicio, fin, fecha, abre) ==
    LET total == Len(results)
        passed == Aprobadas(results)
        failed == total - passed
    IN  IF ~abre
        THEN [escrito |-> "no", contenido |-> <<>>, error |-> "OSError"]
        ELSE IF total = 0
        THEN [escrito |-> "parcial",
              contenido |-> Cabecera(fecha, inicio, fin) \o Recuento(total, passed),
              error |-> "ZeroDivisionError"]
        ELSE [escrito |-> "completo",
              contenido |-> Cabecera(fecha, inicio, fin) \o Recuento(total, passed)
                              \o Porcentaje(total, passed)
                              \o << Texto(<<"DETALLE", "DE", "PRUEBAS:">>, <<>>), Regla30 >>
                              \o Detalle(results, 1) \o Conclusion(failed),
              error |-> ""]

----------------------------------------------------------------------------
(* Placeholders of the components a specification leaves out *)
CalcIdle == importe = NaN /\ descuento = NaN /\ resultado = NotCalled
MainIdle == argv = <<>> /\ salida = SinEjecutar
HarnessIdle == clock = 0 /\ files = {} /\ run = <<>>

----------------------------------------------------------------------------
(* test_descuentos.py: the __main__ block.  Two runs of the harness in one
   directory share the clock (whole seconds) and the files. *)

MaxClock == 2
Runs == {1, 2}
SinHora == -1

RunInit(importado, bateria) ==
    [pc |-> "inicio", importado |-> importado, bateria |-> bateria, idx |-> 1,
     test_results |-> <<>>, start_time |-> SinHora, end_time |-> SinHora,
     informes |-> 0, escrito |-> "no", archivo |-> SinNombre,
     anunciado |-> SinNombre, error |-> ""]

(* a slip: the report is written without waiting for the cases *)
PruebasTerminadas_sin_esperar(rr) == TRUE

(* unittest.main(exit=False) has returned *)
PruebasTerminadas(rr) == rr.idx > Len(rr.bateria)

InitHarness ==
    /\ clock = 0
    /\ files = {}
    /\ \E imp \in BOOLEAN :
         run \in {f \in [Runs -> {RunInit(imp, b) : b \in Baterias}] : TRUE}
    /\ CalcIdle
    /\ MainIdle

Tick ==
    /\ clock < MaxClock
    /\ clock' = clock + 1
    /\ UNCHANGED <<files, run, calcVars, mainVars>>

(* test_reporter.start_time = datetime.now() *)
Iniciar(r) ==
    /\ run[r].pc = "inicio"
    /\ run' = [run EXCEPT ![r].start_time = clock, ![r].pc = "pruebas"]
    /\ UNCHANGED <<clock, files, calcVars, mainVars>>

(* unittest runs the next case of the battery; whatever the case raises is
   caught by unittest and the next case runs *)
EjecutarCaso(r) ==
    /\ run[r].pc = "pruebas"
    /\ ~PruebasTerminadas(run[r])
    /\ run' = [run EXCEPT
                 ![r].test_results =
                     @ \o Caso(run[r].bateria[run[r].idx], run[r].importado),
                 ![r].idx = @ + 1]
    /\ UNCHANGED <<clock, files, calcVars, mainVars>>

(* finally: test_reporter.end_time = datetime.now() *)
RegistrarFin(r) ==
    /\ run[r].pc = "pruebas"
    /\ PruebasTerminadas(run[r])
    /\ run' = [run EXCEPT ![r].end_time = clock, ![r].pc = "informe"]
    /\ UNCHANGED <<clock, files, calcVars, mainVars>>

(* test_reporter.generate_report(): the name is taken from the clock, the
   file is opened for writing (replacing a file of that name) and written;
   the clock is read again for the creation date, d seconds later *)
GenerarInforme(r) ==
    /\ run[r].pc = "informe"
    /\ \E abre \in BOOLEAN, d \in 0..1 :
         LET rr == run[r]
             nombre == NombreInforme(clock)
             res == generate_report(rr.test_results, rr.start_time, rr.end_time,
                                    clock + d, abre)
         IN  /\ clock + d <= MaxClock
             /\ clock' = clock + d
             /\ files' = IF abre
                         THEN {f \in files : f.nombre # nombre}
                                \cup {[nombre |-> nombre, autor |-> r,
                                       contenido |-> res.contenido]}
                         ELSE files
             /\ run' = [run EXCEPT
                          ![r].informes = @ + 1,
                          ![r].escrito = res.escrito,
                          ![r].archivo = IF abre THEN nombre ELSE SinNombre,
                          ![r].error = res.error,
                          ![r].pc = IF res.error = "" THEN "anuncio" ELSE "abortado"]
    /\ UNCHANGED <<calcVars, mainVars>>

(* timestamp = datetime.now()...; print("Informe de pruebas generado: ...") *)
Anunciar(r) ==
    /\ run[r].pc = "anuncio"
    /\ run' = [run EXCEPT ![r].anunciado = NombreInforme(clock), ![r].pc = "fin"]
    /\ UNCHANGED <<clock, files, calcVars, mainVars>>

NextHarness ==
    \/ Tick
    \/ \E r \in Runs : Iniciar(r)
    \/ \E r \in Runs : EjecutarCaso(r)
    \/ \E r \in Runs : RegistrarFin(r)
    \/ \E r \in Runs : GenerarInforme(r)
    \/ \E r \in Runs : Anunciar(r)
SpecHarness == InitHarness /\ [][NextHarness]_vars

----------------------------------------------------------------------------
(* Specification of the calculator: one call on any two floats *)
InitCalc ==
    /\ CalcIdle
    /\ MainIdle
    /\ HarnessIdle

Calcular ==
    /\ resultado.kind = "none"
    /\ \E imp \in Floats, desc \in Floats :
          /\ importe' = imp
          /\ descuento' = desc
          /\ resultado' = calcular_descuento(imp, desc)
    /\ UNCHANGED <<mainVars, harnessVars>>

NextCalc == Calcular
SpecCalc == InitCalc /\ [][NextCalc]_vars

Llamado == resultado.kind # "none"
ImporteValido == FLe(Zero, importe)
DescuentoValido == FLe(Zero, descuento) /\ FLe(descuento, Cien)
EnRango(r) == FLe(Zero, r) /\ FLe(r, importe)
ErrorDescuento ==
    /\ resultado.kind = "raise"
    /\ resultado.msg \in {MsgDescuentoNegativo, MsgDescuentoMayor}

(* C1, as stated: for every amount >= 0 and every percentage in [0, 100]
   the call returns normally and 0 <= result <= amount. *)
C1_Original ==
    (Llamado /\ ImporteValido /\ DescuentoValido)
        => (resultado.kind = "return" /\ EnRango(resultado.value))

(* C1, amended: for every FINITE amount >= 0 and every percentage in
   [0, 100] the call returns normally and 0 <= result <= amount. *)
C1_RangoResultado ==
    (Llamado /\ IsFinite(importe) /\ ImporteValido /\ DescuentoValido)
        => (resultado.kind = "return" /\ EnRango(resultado.value))

(* a call on valid inputs whose result lies strictly between 0 and the amount *)
C1_Witness ==
    /\ Llamado /\ IsFinite(importe) /\ ImporteValido /\ DescuentoValido
    /\ resultado.kind = "return"
    /\ FLt(Zero, resultado.value) /\ FLt(resultado.value, importe)

(* C2: the checks run in the order amount < 0, percentage < 0,
   percentage > 100 and the first failing one decides the error; so every
   amount < 0 raises the negative-amount error whatever the percentage. *)
C2_OrdenValidacion ==
    Llamado =>
        /\ FLt(importe, Zero)
              => resultado = Raise("ValueError", MsgImporteNegativo)
        /\ (~FLt(importe, Zero) /\ FLt(descuento, Zero))
              => resultado = Raise("ValueError", MsgDescuentoNegativo)
        /\ (~FLt(importe, Zero) /\ ~FLt(descuento, Zero) /\ FGt(descuento, Cien))
              => resultado = Raise("ValueError", MsgDescuentoMayor)

(* a negative amount with a percentage that is itself out of range *)
C2_Witness ==
    /\ Llamado /\ FLt(importe, Zero)
    /\ (FLt(descuento, Zero) \/ FGt(descuento, Cien))
    /\ resultado.msg = MsgImporteNegativo

(* C3, as stated: every percentage < 0 or > 100 raises one of the two
   percentage errors, also when the amount is negative. *)
C3_Original ==
    (Llamado /\ (FLt(descuento, Zero) \/ FGt(descuento, Cien))) => ErrorDescuento

(* C3, amended: every percentage < 0 or > 100 raises one of the two
   percentage errors provided the amount is not negative. *)
C3_ErrorDescuento ==
    (Llamado /\ ~FLt(importe, Zero)
        /\ (FLt(descuento, Zero) \/ FGt(descuento, Cien))) => ErrorDescuento

(* a percentage above 100 rejected for an amount that is not negative *)
C3_Witness ==
    /\ Llamado /\ ~FLt(importe, Zero) /\ FGt(descuento, Cien)
    /\ resultado = Raise("ValueError", MsgDescuentoMayor)

CasosLimite ==
    /\ FEq(descuento, Zero)
          => (resultado.kind = "return" /\ FEq(resultado.value, importe))
    /\ FEq(descuento, Cien)
          => (resultado.kind = "return" /\ FEq(resultado.value, Zero))
    /\ (FEq(importe, Zero) /\ DescuentoValido)
          => (resultado.kind = "return" /\ FEq(resultado.value, Zero))

(* C4, as stated: for every amount >= 0, percentage 0 returns exactly the
   amount and percentage 100 returns exactly 0; amount 0 returns 0 for
   every percentage in [0, 100]. *)
C4_Original == (Llamado /\ ImporteValido) => CasosLimite

(* C4, amended: the same three edge cases for every FINITE amount >= 0. *)
C4_CasosLimite == (Llamado /\ IsFinite(importe) /\ ImporteValido) => CasosLimite

(* a positive amount returned unchanged at percentage 0 *)
C4_Witness ==
    /\ Llamado /\ IsFinite(importe) /\ FLt(Zero, importe)
    /\ FEq(descuento, Zero)
    /\ resultado = Return(importe)

----------------------------------------------------------------------------
(* Specification of the command line: any argument list, then one run *)
InitMain ==
    /\ argv \in ArgLists
    /\ salida = SinEjecutar
    /\ CalcIdle
    /\ HarnessIdle

EjecutarMain ==
    /\ salida.estado = "inicio"
    /\ salida' = main(argv)
    /\ UNCHANGED <<argv, calcVars, harnessVars>>

NextMain == EjecutarMain
SpecMain == InitMain /\ [][NextMain]_vars

Terminado == salida.estado = "fin"
Arg(i) == ParseFloat(argv[i])
AmbosNumeros == Len(argv) = 2 /\ Arg(1).ok /\ Arg(2).ok
EntradaValida ==
    /\ AmbosNumeros
    /\ FLe(Zero, Arg(1).value)
    /\ FLe(Zero, Arg(2).value) /\ FLe(Arg(2).value, Cien)

(* C5: main ends with exit code 0 exactly when it got two arguments that
   both parse as numbers with amount >= 0 and 0 <= percentage <= 100, and
   exactly then the final amount is written to stdout; every other run
   ends with exit code 1 and writes nothing to stdout. *)
C5_CodigoSalida ==
    Terminado =>
        /\ salida.exit \in {0, 1}
        /\ salida.exit = 0 <=> EntradaValida
        /\ EntradaValida =>
              salida.stdout = <<LineaResultado(importe_final(Arg(1).value, Arg(2).value))>>
        /\ ~EntradaValida => salida.stdout = <<>>

(* C6: with any number of arguments other than two, main writes exactly
   the two usage lines to stderr, exits with code 1, converts no argument
   and does not call calcular_descuento. *)
C6_Uso ==
    (Terminado /\ Len(argv) # 2) =>
        /\ salida.stderr = <<LineaUso, LineaEjemplo>>
        /\ salida.stdout = <<>>
        /\ salida.exit = 1
        /\ salida.convertidos = 0
        /\ salida.llamadas = 0

(* a run with three arguments that has printed the usage *)
C6_Witness ==
    /\ Terminado /\ Len(argv) = 3
    /\ salida.stderr = <<LineaUso, LineaEjemplo>>

(* C7: with two arguments, a conversion failure of either argument prints
   the single generic line and never a validation message; a rejection by
   the calculator prints "Error: " and the calculator's own message and
   never the generic line. *)
C7_ClaseDeError ==
    (Terminado /\ Len(argv) = 2) =>
        /\ ~AmbosNumeros => salida.stderr = <<LineaNoNumeros>>
        /\ (AmbosNumeros
              /\ calcular_descuento(Arg(1).value, Arg(2).value).kind = "raise")
              => /\ salida.stderr =
                      <<LineaError(calcular_descuento(Arg(1).value, Arg(2).value).msg)>>
                 /\ salida.stderr # <<LineaNoNumeros>>

(* a run whose two arguments convert and whose percentage the calculator
   rejects: its message is printed after "Error:" *)
C7_Witness ==
    /\ Terminado /\ AmbosNumeros
    /\ FGt(Arg(2).value, Cien)
    /\ salida.stderr = <<LineaError(MsgDescuentoMayor)>>

----------------------------------------------------------------------------
(* Properties of the harness *)

RegistrosEnOrden(rr) ==
    /\ Len(rr.test_results) = rr.idx - 1
    /\ \A i \in 1..Len(rr.test_results) :
          /\ rr.test_results[i].test_name = rr.bateria[i]
          /\ rr.test_results[i].status \in {"PASS", "FAIL"}
    /\ rr.pc \notin {"inicio", "pruebas"}
          => Len(rr.test_results) = Len(rr.bateria)

RegistrosConservados ==
    \A r \in Runs :
        /\ Len(run'[r].test_results) \in
              {Len(run[r].test_results), Len(run[r].test_results) + 1}
        /\ SubSeq(run'[r].test_results, 1, Len(run[r].test_results))
              = run[r].test_results

(* C8: every executed case appends exactly one record, PASS or FAIL; the
   records are in the order of execution; a record is never changed or
   removed; a failing case does not keep later cases from being run and
   recorded, so after the battery there are as many records as cases. *)
C8_Registros ==
    /\ [](\A r \in Runs : RegistrosEnOrden(run[r]))
    /\ [][RegistrosConservados]_vars

(* a finished run of the whole battery whose first case failed *)
C8_Witness ==
    \E r \in Runs :
        /\ run[r].pc = "fin"
        /\ Len(run[r].test_results) = Len(TodosLosCasos)
        /\ run[r].test_results[1].status = "FAIL"
        /\ run[r].test_results[Len(TodosLosCasos)].test_name
              = "test_valores_negativos_importe"

InformeUnaVez(rr) ==
    /\ rr.informes \in {0, 1}
    /\ rr.informes = 1 <=> rr.pc \in {"anuncio", "fin", "abortado"}
    /\ rr.informes = 1 =>
          /\ rr.idx > Len(rr.bateria)
          /\ Len(rr.test_results) = Len(rr.bateria)
          /\ rr.start_time # SinHora /\ rr.end_time # SinHora
    /\ (rr.informes = 1 /\ rr.escrito # "completo") =>
          /\ rr.pc = "abortado"
          /\ rr.error # ""
          /\ rr.anunciado = SinNombre
    /\ rr.pc = "fin" => (rr.escrito = "completo" /\ rr.error = "")

(* C9: in every run generate_report is called exactly once, and only after
   every case of the battery has completed and end_time is set, however
   many cases failed; a failure while writing the report leaves the run
   with an error instead of being swallowed. *)
C9_InformeUnaVez == \A r \in Runs : InformeUnaVez(run[r])

(* a run in which every case failed, and whose report could not be opened:
   the run ends with the error *)
C9_Witness ==
    \E r \in Runs :
        /\ run[r].pc = "abortado" /\ run[r].error = "OSError"
        /\ run[r].informes = 1
        /\ Len(run[r].test_results) = Len(TodosLosCasos)
        /\ \A i \in 1..Len(run[r].test_results) : run[r].test_results[i].status = "FAIL"

(* C10: two runs never write their report to the same file name, also when
   both generate_report calls fall within the same second. *)
C10_NombresDistintos ==
    \A r1 \in Runs, r2 \in Runs :
        (r1 # r2 /\ run[r1].archivo # SinNombre /\ run[r2].archivo # SinNombre)
            => run[r1].archivo # run[r2].archivo

(* C11: within one run the file name announced after generate_report is
   the name of the file generate_report wrote, however the clock advances
   between the two. *)
C11_NombreAnunciado ==
    \A r \in Runs : run[r].pc = "fin" => run[r].anunciado = run[r].archivo

LineasCon(c, palabra) == {i \in 1..Len(c) : c[i].texto # <<>> /\ c[i].texto[1] = palabra}
TieneLinea(c, palabras, dato) == \E i \in 1..Len(c) : c[i] = Texto(palabras, dato)

(* a complete report of the results: header, the four summary lines with
   failed = total - passed, one numbered entry per record, and the closing
   verdict, which states full success exactly when no record failed *)
InformeCompleto(c, results) ==
    LET total == Len(results)
        passed == Aprobadas(results)
    IN  /\ Len(c) >= 3
        /\ c[1] = Regla60
        /\ LineasCon(c, "INFORME") # {}
        /\ TieneLinea(c, <<"Total", "de", "pruebas:">>, IntDigits(total))
        /\ TieneLinea(c, <<"Pruebas", "exitosas:">>, IntDigits(passed))
        /\ TieneLinea(c, <<"Pruebas", "fallidas:">>, IntDigits(total - passed))
        /\ LineasCon(c, "Porcentaje") # {}
        /\ Cardinality(LineasCon(c, "v") \cup LineasCon(c, "x")) = total
        /\ c[Len(c)] = Regla60
        /\ c[Len(c) - 1].texto # <<>>
        /\ c[Len(c) - 1].texto[1] = "RESULTADO"
        /\ ("TODAS" \in {c[Len(c) - 1].texto[j] : j \in 1..Len(c[Len(c) - 1].texto)})
              <=> (total - passed = 0)

(* C12: for every sequence of recorded results, the empty one included,
   a report file that has been opened holds a complete report; it is never
   left partially written. *)
C12_InformeCompleto ==
    \A f \in files :
        /\ run[f.autor].escrito = "completo"
        /\ InformeCompleto(f.contenido, run[f.autor].test_results)

====
